---- MODULE Spec2Model ----
(***************************************************************************)
(* A model of Mu's application logic (mu/editor.py: Editor, REPL) and of   *)
(* the parts of the main window it drives (mu/interface.py: Window,        *)
(* EditorPane).                                                            *)
(*                                                                         *)
(* Encoding of Python values:                                              *)
(*   - an optional value is a set: None is {} and a value v is {v};        *)
(*   - a str is a sequence of pieces, '' is << >>; a path such as 'a.py'   *)
(*     is <<"a", ".py">>, so endswith('.py') and += '.py' are computed on  *)
(*     the last piece; a text is the sequence of its lines;                *)
(*   - a file system is a function from paths to optional contents.        *)
(***************************************************************************)
EXTENDS Naturals, Sequences, FiniteSets, TLC

\* ------------------------------------------------------------------ bounds
\* Most tabs that 'new' and 'load' fill the tab widget with.
MaxTabs == 2

\* Most paths of a session file the editor is started on.
MaxSession == 3

\* ------------------------------------------------------- optional values
None == {}
Some(v) == {v}
The(o) == CHOOSE v \in o : TRUE

\* ------------------------------------------------------------- the world
\* Serial ports find_microbit() can report.
Ports == {<<"ttyACM0">>}

\* Values of os.name: the two the code knows and one it does not.
OsNames == {"posix", "nt", "java"}

\* Texts of the messages the editor shows.
MSG_NOT_FOUND == "Could not find an attached BBC micro:bit."
INFO_RESET == "Click the device's reset button, wait a few seconds and then try again."
INFO_PLUG == "Please make sure the device is plugged into this computer. The device must have MicroPython flashed onto it before the REPL will work. Finally, press the device's reset button and wait a few seconds before trying again."
IOERROR_TEXT == "str(ex)"

MSG_UNSAVED == "You have un-saved work!"
MSG_FLASHING == "Flashing \"{}\" onto the micro:bit."
INFO_FLASHING == "When the yellow LED stops flashing the device will restart and your script will run. If there is an error, you'll see a helpful message scroll across the device's display."

\* Paths. The pieces ".py" and ".hex" are the extensions.
PY == ".py"
FileA == <<"a", PY>>
FileB == <<"b", PY>>
FileC == <<"c", PY>>
FileH == <<"m", ".hex">>
FsPaths == {FileA, FileB, FileC, FileH}

\* An image that holds the runtime and no script.
FileR == <<"r", ".hex">>

\* What the file dialogs return in the model: '' when the user cancels, a
\* script or an image to load, a name without extension to save under.
LoadChoices == {<< >>, FileA, FileH}
SaveChoices == {<< >>, <<"c">>}

\* The same with an image without a script to load, and with a name that
\* has its extension to save under.
LoadChoicesAll == LoadChoices \cup {FileR}
SaveChoicesAll == SaveChoices \cup {FileC}

\* Texts: what 'new' and restore_session put into a fresh tab, what the
\* files hold at first, and what the user types.
EMPTY == << >>
PLACEHOLDER == <<"from microbit import *", "", "# Write code here :-)">>
TextA == <<"a = 1">>
TextB == <<"b = 2">>
TextC == <<"c = 5">>
TextH == <<"h = 3">>
Typed == {<<"e = 4">>}

Message(text, info, icon) == [text |-> text, info |-> info, icon |-> icon]

\* ----------------------------------------------------------------- state
VARIABLES
    phase,      \* "constructed" (Editor.__init__ done), "running", "exited"
                \* (sys.exit) or "crashed" (restore_session raised)
    os_name,    \* os.name of the host
    repl,       \* Editor.repl: None or the REPL
    wrepl,      \* Window.repl: None (or not set yet) or the REPL pane
    panes,      \* number of REPL panes the splitter holds
    tabs,       \* Window.tabs: the pages, [path, text, modified, title, index]
    cur,        \* index of the current tab, 0 when there is none
    fs,         \* the files: path -> None (missing) or the text
    session,    \* SESSION_FILE: None (absent) or its JSON tokens
    device,     \* micropython.hex on the mounted device: None or the image
    lastOp,     \* history: the operation that ran last and what it did
    openLog,    \* history: outcome of the latest add_repl call
    persisted   \* history: the paths the latest quit wrote

replVars == <<repl, wrepl, panes>>
docVars == <<tabs, cur, fs, session, device>>
vars == <<phase, os_name, repl, wrepl, panes, tabs, cur, fs, session, device,
          lastOp, openLog, persisted>>

\* No add_repl call yet in this run of the editor.
NoOpen == [res |-> "none", closedSince |-> FALSE]

\* The record of an operation: what it was called on (Editor.repl and the
\* outcome of the latest add_repl before it), what find_microbit() and the
\* View answered where they were asked, and what came out: the error that
\* left the operation, the messages shown, the calls made.
Op(name) == [op |-> name, err |-> "", msgs |-> << >>, calls |-> {},
             preRepl |-> repl, prevOpen |-> openLog,
             mb_port |-> None, viewOut |-> ""]

\* The record of an operation that does not read the REPL.
DocOp(name) == [op |-> name, err |-> "", msgs |-> << >>, calls |-> {},
                preRepl |-> None, prevOpen |-> NoOpen,
                mb_port |-> None, viewOut |-> ""]

\* ------------------------------------------------------------------ REPL
\* REPL.__init__: the port as the platform names it, or the failure.
REPL(port) ==
    IF os_name = "posix" THEN [ok |-> TRUE, port |-> <<"/dev/">> \o port]
    ELSE IF os_name = "nt" THEN [ok |-> TRUE, port |-> port]
    ELSE [ok |-> FALSE, port |-> port]

\* Window.add_repl: the pane is built first (REPLPane opens the serial port
\* and is where the call can fail), then kept and put into the splitter.
\* out is what building the pane does: "ok", "IOError" or "Error".
Window_add_repl(r, out) ==
    IF out = "ok"
    THEN [raised |-> "", wrepl |-> Some([port |-> r.port]), panes |-> panes + 1]
    ELSE [raised |-> out, wrepl |-> wrepl, panes |-> panes]

\* Window.remove_repl: self.repl.setParent(None) fails when there is no
\* pane (AttributeError) or when Qt refuses (out = "RuntimeError"); only
\* then are the pane taken out of the splitter and the reference dropped.
Window_remove_repl(out) ==
    IF wrepl = None
    THEN [raised |-> "AttributeError", wrepl |-> wrepl, panes |-> panes]
    ELSE IF out # "ok"
    THEN [raised |-> out, wrepl |-> wrepl, panes |-> panes]
    ELSE [raised |-> "", wrepl |-> None, panes |-> panes - 1]

\* A guard of add_repl that never refuses.
AlreadyRunning_never == FALSE

\* Editor.add_repl, line 123: the guard of the single session.
AlreadyRunning == repl # None

\* A guard of remove_repl that never refuses.
NotRunning_never == FALSE

\* Editor.remove_repl, line 148.
NotRunning == repl = None

\* An except clause that lets the I/O failure through.
CaughtByAddRepl_nothing(raised) == FALSE

\* The except clause of Editor.add_repl, line 130: what it catches.
CaughtByAddRepl(raised) == raised = "IOError"

\* Editor.add_repl, called as `name` (by itself or through toggle_repl), with
\* find_microbit() returning mb_port and the pane's construction doing out.
add_repl(name, mb_port, out) ==
    LET op == [Op(name) EXCEPT !.calls = {"add_repl"}]
        log(res) == [res |-> res, closedSince |-> FALSE]
    IN
    IF AlreadyRunning
    THEN /\ lastOp' = [op EXCEPT !.err = "AlreadyOpen"]
         /\ openLog' = log("AlreadyOpen")
         /\ UNCHANGED replVars
    ELSE IF mb_port = None
    THEN /\ lastOp' = [op EXCEPT
                !.calls = @ \cup {"find_microbit", "show_message"},
                !.msgs = <<Message(MSG_NOT_FOUND, INFO_PLUG, "Warning")>>]
         /\ openLog' = log("NotFound")
         /\ UNCHANGED replVars
    ELSE LET r == REPL(The(mb_port)) IN
         IF ~r.ok
         THEN /\ lastOp' = [op EXCEPT !.calls = @ \cup {"find_microbit"},
                                      !.mb_port = mb_port,
                                      !.err = "NotImplementedError"]
              /\ openLog' = log("NotImplementedError")
              /\ UNCHANGED replVars
         ELSE LET w == Window_add_repl(r, out)
                  called == [op EXCEPT
                      !.calls = @ \cup {"find_microbit", "view.add_repl"},
                      !.mb_port = mb_port, !.viewOut = out]
              IN
              /\ wrepl' = w.wrepl
              /\ panes' = w.panes
              /\ IF w.raised = ""
                 THEN /\ repl' = Some([port |-> r.port])
                      /\ lastOp' = called
                      /\ openLog' = log("Connected")
                 ELSE IF CaughtByAddRepl(w.raised)
                 THEN /\ repl' = None
                      /\ lastOp' = [called EXCEPT
                              !.calls = @ \cup {"show_message"},
                              !.msgs = <<Message(IOERROR_TEXT, INFO_RESET,
                                                 "Warning")>>]
                      /\ openLog' = log("ConnectFailed")
                 ELSE /\ repl' = Some([port |-> r.port])
                      /\ lastOp' = [called EXCEPT !.err = w.raised]
                      /\ openLog' = log(w.raised)

\* Editor.remove_repl, called as `name`, with the View's release doing out.
remove_repl(name, out) ==
    LET op == [Op(name) EXCEPT !.calls = {"remove_repl"}] IN
    /\ openLog' = [openLog EXCEPT !.closedSince = TRUE]
    /\ IF NotRunning
       THEN /\ lastOp' = [op EXCEPT !.err = "NotOpen"]
            /\ UNCHANGED replVars
       ELSE LET w == Window_remove_repl(out) IN
            /\ wrepl' = w.wrepl
            /\ panes' = w.panes
            /\ lastOp' = [op EXCEPT !.calls = @ \cup {"view.remove_repl"},
                                    !.viewOut = out, !.err = w.raised]
            /\ repl' = IF w.raised = "" THEN None ELSE repl

\* Editor.toggle_repl, line 157: which way to go.
ToggleOpens == repl = None

\* Editor.toggle_repl.
toggle_repl(mb_port, addOut, removeOut) ==
    IF ToggleOpens
    THEN add_repl("toggle_repl", mb_port, addOut)
    ELSE remove_repl("toggle_repl", removeOut)

\* What find_microbit() and the two View calls can do.
FindOutcomes == {None} \cup {Some(p) : p \in Ports}
AddOutcomes == {"ok", "IOError", "Error"}
RemoveOutcomes == {"ok", "RuntimeError"}

\* ------------------------------------------------------------------ JSON
\* SESSION_FILE holds the tokens json.dump writes: brackets, commas, and
\* one token per element: a quoted string, or null for None.
LBR == <<"[">>
RBR == <<"]">>
COMMA == <<",">>
NULL == <<"null">>
QUOTE == "\""
JsonValue(o) == IF o = None THEN NULL ELSE <<QUOTE>> \o The(o)
IsJsonValue(t) == t = NULL \/ (Len(t) > 0 /\ t[1] = QUOTE)
FromJsonValue(t) == IF t = NULL THEN None ELSE Some(Tail(t))

RECURSIVE JsonElements(_)
JsonElements(list) ==
    IF list = << >> THEN << >>
    ELSE IF Len(list) = 1 THEN <<JsonValue(list[1])>>
    ELSE <<JsonValue(list[1]), COMMA>> \o JsonElements(Tail(list))

\* json.dump(list, out): the list is a sequence of optional strings.
JsonDump(list) == <<LBR>> \o JsonElements(list) \o <<RBR>>

RECURSIVE JsonParseElements(_)
JsonParseElements(toks) ==
    IF toks = << >> \/ ~IsJsonValue(toks[1])
    THEN [ok |-> FALSE, val |-> << >>]
    ELSE IF Len(toks) = 1
    THEN [ok |-> TRUE, val |-> <<FromJsonValue(toks[1])>>]
    ELSE IF toks[2] # COMMA
    THEN [ok |-> FALSE, val |-> << >>]
    ELSE LET rest == JsonParseElements(Tail(Tail(toks))) IN
         [ok |-> rest.ok, val |-> <<FromJsonValue(toks[1])>> \o rest.val]

\* json.load(f): the list, or ok = FALSE where it raises.
JsonLoad(toks) ==
    IF Len(toks) < 2 \/ toks[1] # LBR \/ toks[Len(toks)] # RBR
    THEN [ok |-> FALSE, val |-> << >>]
    ELSE IF Len(toks) = 2 THEN [ok |-> TRUE, val |-> << >>]
    ELSE JsonParseElements(SubSeq(toks, 2, Len(toks) - 1))

\* ---------------------------------------------------------------- uflash
\* The image encoder (mu.contrib.uflash). An image is a sequence of record
\* lines; the script region is an address record followed by one data
\* record per line of the script.
SCRIPT_ADDR == ":020000040003F7"
DATA == ":10E000"
RUNTIME == <<":runtime", ":start", ":eof">>
ScriptLines == {TextA[1], TextB[1], TextC[1], TextH[1]} \cup {t[1] : t \in Typed}
                 \cup {PLACEHOLDER[i] : i \in 1..Len(PLACEHOLDER)}
DataRecord(line) == DATA \o line
IsDataRecord(rec) == \E l \in ScriptLines : DataRecord(l) = rec
Payload(rec) == CHOOSE l \in ScriptLines : DataRecord(l) = rec

\* The capacity of the script region, in lines, and a script beyond it.
SCRIPT_CAPACITY == 3
TooLarge(script) == Len(script) > SCRIPT_CAPACITY
LongText == <<"a = 1", "b = 2", "c = 3", "e = 4">>

\* uflash.hexlify(script), for a script within the capacity.
hexlify(script) ==
    IF script = << >> THEN << >>
    ELSE <<SCRIPT_ADDR>> \o [i \in 1..Len(script) |-> DataRecord(script[i])]

\* uflash.embed_hex(runtime_hex, python_hex).
embed_hex(runtime, python_hex) ==
    IF python_hex = << >> THEN runtime
    ELSE SubSeq(runtime, 1, Len(runtime) - 2) \o python_hex
         \o SubSeq(runtime, Len(runtime) - 1, Len(runtime))

RECURSIVE Payloads(_)
Payloads(recs) ==
    IF recs = << >> \/ ~IsDataRecord(recs[1]) THEN << >>
    ELSE <<Payload(recs[1])>> \o Payloads(Tail(recs))

\* uflash.extract_script(embedded_hex): the script after the address
\* record, '' when the image holds none.
extract_script(image) ==
    IF \E i \in 1..Len(image) : image[i] = SCRIPT_ADDR
    THEN LET i == CHOOSE j \in 1..Len(image) : image[j] = SCRIPT_ADDR IN
         Payloads(SubSeq(image, i + 1, Len(image)))
    ELSE << >>

ImageH == embed_hex(RUNTIME, hexlify(TextH))

\* ------------------------------------------------------------------ tabs
\* EditorPane.__init__: the pane of a fresh tab is not modified.
EditorPane(path, text) == [path |-> path, text |-> text, modified |-> FALSE]

\* EditorPane.label.
Label(tab) ==
    LET label == IF tab.path # None /\ The(tab.path) # << >>
                 THEN The(tab.path) ELSE <<"untitled">>
    IN IF tab.modified THEN Append(label, " *") ELSE label

\* A page of the QTabWidget: the pane, the text of its tab in the tab bar
\* and new_tab_index, which the pane's on_modified closure holds. Positions
\* count from 1 here, where Qt counts from 0.
Tab(pane, new_tab_index) ==
    [path |-> pane.path, text |-> pane.text, modified |-> pane.modified,
     title |-> Label(pane), index |-> new_tab_index]

\* An add_tab that puts the new tab first.
AddTab_first(ts, path, text) == <<Tab(EditorPane(path, text), 1)>> \o ts

\* Window.add_tab on the tabs ts: the new tab goes last, addTab() returns
\* its position.
AddTab(ts, path, text) == Append(ts, Tab(EditorPane(path, text), Len(ts) + 1))

\* QTabWidget.setTabText(index, label): nothing for a position without tab.
setTabText(ts, index, label) ==
    IF index \in 1..Len(ts) THEN [ts EXCEPT ![index].title = label] ELSE ts

\* on_modified of Window.add_tab, for the pane now at position i of ts:
\* the text of the tab at the position held since the pane was added
\* becomes the pane's label.
on_modified(ts, i) == setTabText(ts, ts[i].index, Label(ts[i]))

\* setModified(value) on the pane at position i of ts: modificationChanged
\* is emitted when the flag changes.
setModified(ts, i, value) ==
    LET set == [ts EXCEPT ![i].modified = value] IN
    IF ts[i].modified = value THEN set ELSE on_modified(set, i)

\* A window that looks at the tab in front only.
Window_modified_current == cur # 0 /\ tabs[cur].modified

\* Window.modified: some tab is modified.
Window_modified == \E i \in 1..Len(tabs) : tabs[i].modified

\* Window.current_tab.
current_tab == IF cur = 0 THEN None ELSE Some(tabs[cur])

\* A quit that takes the path of every widget.
HasPath_always(widget) == TRUE

\* 'if widget.path:' of Editor.quit, line 254.
HasPath(widget) == widget.path # None /\ The(widget.path) # << >>

RECURSIVE SessionPaths(_)
\* Editor.quit, lines 252-255: the paths of the widgets that have one.
SessionPaths(ws) ==
    IF ws = << >> THEN << >>
    ELSE IF HasPath(ws[1]) THEN <<ws[1].path>> \o SessionPaths(Tail(ws))
    ELSE SessionPaths(Tail(ws))

\* open(path).read(): the text, or None for FileNotFoundError. A path
\* outside the file system ('' included) is a missing file.
ReadFile(path) == IF path \in DOMAIN fs THEN fs[path] ELSE None

RECURSIVE RestoreTabs_stops(_, _)
\* A restore loop that gives up at the first missing file.
RestoreTabs_stops(list, ts) ==
    IF list = << >> THEN [tabs |-> ts, err |-> ""]
    ELSE IF list[1] = None THEN [tabs |-> ts, err |-> "TypeError"]
    ELSE IF ReadFile(The(list[1])) = None THEN [tabs |-> ts, err |-> ""]
    ELSE RestoreTabs_stops(Tail(list),
                           AddTab(ts, list[1], The(ReadFile(The(list[1])))))

RECURSIVE RestoreTabs(_, _)
\* Editor.restore_session, lines 78-85: the loop over the listed paths,
\* starting from the tabs ts. open(None) raises TypeError.
RestoreTabs(list, ts) ==
    IF list = << >> THEN [tabs |-> ts, err |-> ""]
    ELSE IF list[1] = None THEN [tabs |-> ts, err |-> "TypeError"]
    ELSE IF ReadFile(The(list[1])) = None THEN RestoreTabs(Tail(list), ts)
    ELSE RestoreTabs(Tail(list),
                     AddTab(ts, list[1], The(ReadFile(The(list[1])))))

\* A restore that always adds the default tab.
NeedsDefault_always(ts) == TRUE

\* Editor.restore_session, line 86: 'if not self._view.tab_count'.
NeedsDefault(ts) == Len(ts) = 0

\* An endswith that never finds the extension.
EndsWithPy_never(path) == FALSE

\* str.endswith('.py').
EndsWithPy(path) == Len(path) > 0 /\ path[Len(path)] = PY

\* A save that takes the name as it was given.
SavedPath_asis(path) == path

\* Editor.save, lines 217-219: the path with its extension.
SavedPath(path) == IF EndsWithPy(path) THEN path ELSE Append(path, PY)

\* A cancelled save that keeps what the dialog returned.
CancelledPath_kept(chosen) == Some(chosen)

\* Editor.save, line 226: the path of the tab after a cancelled dialog.
CancelledPath(chosen) == None

\* open(path, 'w') and f.write(text) on the files f.
WriteFile(f, path, text) ==
    [p \in DOMAIN f \cup {path} |-> IF p = path THEN Some(text) ELSE f[p]]

\* A flash that takes every answer of the locator for a device.
DeviceFound_always(path_to_microbit) == TRUE

\* Editor.flash, line 105: 'if path_to_microbit'.
DeviceFound(path_to_microbit) == path_to_microbit

\* A flash that embeds the script as it is.
FlashImage_raw(text) == embed_hex(RUNTIME, text)

\* Editor.flash, lines 100-103: the image of the tab's text.
FlashImage(text) == embed_hex(RUNTIME, hexlify(text))

\* What writing SESSION_FILE does: all of it, or it stops after n tokens
\* (the file was truncated when it was opened), on an I/O error that
\* json.dump raises or with the process killed.
WriteOk == [ok |-> TRUE, n |-> 0, killed |-> FALSE]
Interrupted(n, killed) == [ok |-> FALSE, n |-> n, killed |-> killed]
WriteOutcomes ==
    {WriteOk} \cup
    {Interrupted(n, killed) : n \in 0..(2 * MaxTabs), killed \in BOOLEAN}

\* ------------------------------------------------------------ operations
Running == phase = "running"

\* Editor.restore_session, run once when the application starts.
restore_session ==
    /\ phase = "constructed"
    /\ LET loaded == IF session = None THEN [ok |-> TRUE, val |-> << >>]
                     ELSE JsonLoad(The(session))
           r == RestoreTabs(loaded.val, tabs)
       IN
       IF ~loaded.ok
       THEN /\ phase' = "crashed"
            /\ lastOp' = [DocOp("restore_session") EXCEPT !.err = "ValueError"]
            /\ UNCHANGED <<tabs, cur>>
       ELSE IF r.err # ""
       THEN /\ phase' = "crashed"
            /\ lastOp' = [DocOp("restore_session") EXCEPT !.err = r.err]
            /\ tabs' = r.tabs
            /\ cur' = Len(r.tabs)
       ELSE /\ phase' = "running"
            /\ lastOp' = DocOp("restore_session")
            /\ tabs' = IF NeedsDefault(r.tabs)
                       THEN AddTab(r.tabs, None, PLACEHOLDER) ELSE r.tabs
            /\ cur' = Len(tabs')
    /\ UNCHANGED <<os_name, replVars, fs, session, device, openLog, persisted>>

\* Editor.new.
new ==
    /\ Running
    /\ Len(tabs) < MaxTabs
    /\ tabs' = AddTab(tabs, None, EMPTY)
    /\ cur' = Len(tabs')
    /\ lastOp' = DocOp("new")
    /\ UNCHANGED <<phase, os_name, replVars, fs, session, device, openLog,
                   persisted>>

\* Editor.load, with get_load_path() returning path.
load(path) ==
    /\ Running
    /\ Len(tabs) < MaxTabs
    /\ lastOp' = DocOp("load")
    /\ IF ReadFile(path) = None
       THEN UNCHANGED <<tabs, cur>>
       ELSE /\ tabs' = IF EndsWithPy(path)
                       THEN AddTab(tabs, Some(path), The(ReadFile(path)))
                       ELSE AddTab(tabs, None,
                                   extract_script(The(ReadFile(path))))
            /\ cur' = Len(tabs')
    /\ UNCHANGED <<phase, os_name, replVars, fs, session, device, openLog,
                   persisted>>

\* Editor.save, with get_save_path() returning chosen when it is asked and
\* open(tab.path, 'w') doing io: "ok" or "OSError".
save(chosen, io) ==
    /\ Running
    /\ IF current_tab = None
       THEN /\ lastOp' = DocOp("save")
            /\ UNCHANGED <<tabs, fs>>
       ELSE LET tab == The(current_tab)
                asked == IF tab.path = None THEN {"get_save_path"} ELSE {}
                path == IF tab.path = None THEN chosen ELSE The(tab.path)
                full == SavedPath(path)
            IN
            IF path # << >>
            THEN IF io = "ok"
                 THEN /\ fs' = WriteFile(fs, full, tab.text)
                      /\ tabs' = setModified(
                                    [tabs EXCEPT ![cur].path = Some(full)],
                                    cur, FALSE)
                      /\ lastOp' = [DocOp("save") EXCEPT !.calls = asked]
                 ELSE /\ tabs' = [tabs EXCEPT ![cur].path = Some(full)]
                      /\ lastOp' = [DocOp("save") EXCEPT !.calls = asked,
                                                         !.err = io]
                      /\ UNCHANGED fs
            ELSE /\ tabs' = [tabs EXCEPT ![cur].path = CancelledPath(path)]
                 /\ lastOp' = [DocOp("save") EXCEPT !.calls = asked]
                 /\ UNCHANGED fs
    /\ UNCHANGED <<phase, os_name, replVars, cur, session, device, openLog,
                   persisted>>

\* The message of a flash that went through, with the tab's label.
FlashMessage(tab) ==
    [text |-> MSG_FLASHING, label |-> Label(tab), info |-> INFO_FLASHING,
     icon |-> "Information"]

\* Editor.flash, with uflash.find_microbit() returning found and
\* uflash.save_hex() doing io: "ok" or "IOError". A script beyond the
\* capacity makes uflash.hexlify raise before the device is looked for.
flash(found, io) ==
    /\ Running
    /\ IF current_tab = None
       THEN /\ lastOp' = DocOp("flash")
            /\ UNCHANGED device
       ELSE LET tab == The(current_tab)
                micropython_hex == FlashImage(tab.text)
            IN
            IF TooLarge(tab.text)
            THEN /\ UNCHANGED device
                 /\ lastOp' = [DocOp("flash") EXCEPT
                        !.calls = {"hexlify"}, !.err = "ScriptTooLarge"]
            ELSE IF DeviceFound(found)
            THEN IF io = "ok"
                 THEN /\ device' = Some(micropython_hex)
                      /\ lastOp' = [DocOp("flash") EXCEPT
                             !.calls = {"hexlify", "find_microbit", "save_hex",
                                        "show_message"},
                             !.msgs = <<FlashMessage(tab)>>]
                 ELSE /\ UNCHANGED device
                      /\ lastOp' = [DocOp("flash") EXCEPT
                             !.calls = {"hexlify", "find_microbit", "save_hex"},
                             !.err = io]
            ELSE /\ UNCHANGED device
                 /\ lastOp' = [DocOp("flash") EXCEPT
                        !.calls = {"hexlify", "find_microbit", "show_message"},
                        !.msgs = <<Message(MSG_NOT_FOUND, "", "Warning")>>]
    /\ UNCHANGED <<phase, os_name, replVars, tabs, cur, fs, session, openLog,
                   persisted>>

\* Editor.quit, with show_confirmation() answering `answer` when asked and
\* the write of SESSION_FILE doing io.
quit(answer, io) ==
    /\ Running
    /\ io.ok \/ io.n < Len(JsonDump(SessionPaths(tabs)))
    /\ IF Window_modified /\ answer = "Cancel"
       THEN /\ lastOp' = [DocOp("quit") EXCEPT !.calls = {"show_confirmation"},
                              !.msgs = <<Message(MSG_UNSAVED, "", "Warning")>>]
            /\ UNCHANGED <<phase, session, persisted>>
       ELSE LET asked == [DocOp("quit") EXCEPT
                    !.calls = IF Window_modified THEN {"show_confirmation"}
                              ELSE {},
                    !.msgs = IF Window_modified
                             THEN <<Message(MSG_UNSAVED, "", "Warning")>>
                             ELSE << >>]
            IN
            IF io.ok
            THEN /\ lastOp' = asked
                 /\ session' = Some(JsonDump(SessionPaths(tabs)))
                 /\ persisted' = Some(SessionPaths(tabs))
                 /\ phase' = "exited"
            ELSE /\ lastOp' = [asked EXCEPT
                        !.err = IF io.killed THEN "killed" ELSE "OSError"]
                 /\ session' =
                       Some(SubSeq(JsonDump(SessionPaths(tabs)), 1, io.n))
                 /\ phase' = IF io.killed THEN "crashed" ELSE phase
                 /\ UNCHANGED persisted
    /\ UNCHANGED <<os_name, replVars, tabs, cur, fs, device, openLog>>

\* The application is started again: Editor.__init__ on a fresh Window.
launch ==
    /\ phase \in {"exited", "crashed"}
    /\ phase' = "constructed"
    /\ repl' = None
    /\ wrepl' = None
    /\ panes' = 0
    /\ tabs' = << >>
    /\ cur' = 0
    /\ openLog' = NoOpen
    /\ lastOp' = DocOp("__init__")
    /\ UNCHANGED <<os_name, fs, session, device, persisted>>

\* The REPL operations as the user triggers them.
AddRepl ==
    /\ Running
    /\ \E mb_port \in FindOutcomes, out \in AddOutcomes :
          add_repl("add_repl", mb_port, out)
    /\ UNCHANGED <<phase, os_name, docVars, persisted>>

RemoveRepl ==
    /\ Running
    /\ \E out \in RemoveOutcomes : remove_repl("remove_repl", out)
    /\ UNCHANGED <<phase, os_name, docVars, persisted>>

ToggleRepl ==
    /\ Running
    /\ \E mb_port \in FindOutcomes, addOut \in AddOutcomes,
          removeOut \in RemoveOutcomes :
          toggle_repl(mb_port, addOut, removeOut)
    /\ UNCHANGED <<phase, os_name, docVars, persisted>>

\* ------------------------------------------------- the user and the world
\* The user types into the current tab.
Edit(text) ==
    /\ Running
    /\ cur # 0
    /\ tabs' = setModified([tabs EXCEPT ![cur].text = text], cur, TRUE)
    /\ lastOp' = DocOp("edit")
    /\ UNCHANGED <<phase, os_name, replVars, cur, fs, session, device,
                   openLog, persisted>>

\* The user brings tab i to the front.
SelectTab(i) ==
    /\ Running
    /\ i \in 1..Len(tabs)
    /\ i # cur
    /\ cur' = i
    /\ lastOp' = DocOp("select")
    /\ UNCHANGED <<phase, os_name, replVars, tabs, fs, session, device,
                   openLog, persisted>>

\* tabCloseRequested -> QTabWidget.removeTab(i).
CloseTab(i) ==
    /\ Running
    /\ i \in 1..Len(tabs)
    /\ tabs' = [j \in 1..(Len(tabs) - 1) |->
                   IF j < i THEN tabs[j] ELSE tabs[j + 1]]
    /\ cur' = IF i < cur THEN cur - 1
              ELSE IF cur > Len(tabs) - 1 THEN Len(tabs) - 1
              ELSE cur
    /\ lastOp' = DocOp("close_tab")
    /\ UNCHANGED <<phase, os_name, replVars, fs, session, device, openLog,
                   persisted>>

\* A file is moved away or deleted behind the editor's back.
DeleteFile(path) ==
    /\ fs[path] # None
    /\ fs' = [fs EXCEPT ![path] = None]
    /\ lastOp' = DocOp("delete_file")
    /\ UNCHANGED <<phase, os_name, replVars, tabs, cur, session, device,
                   openLog, persisted>>

\* --------------------------------------------------------- specification
\* The files of a first start: one script and two images.
InitialFs == [p \in FsPaths \cup {FileR} |->
                 IF p = FileA THEN Some(TextA)
                 ELSE IF p = FileH THEN Some(ImageH)
                 ELSE IF p = FileR THEN Some(RUNTIME)
                 ELSE None]

Init ==
    /\ phase = "constructed"
    /\ os_name \in OsNames
    /\ repl = None
    /\ wrepl = None
    /\ panes = 0
    /\ tabs = << >>
    /\ cur = 0
    /\ fs = InitialFs
    /\ session = None
    /\ device = None
    /\ openLog = NoOpen
    /\ lastOp = DocOp("__init__")
    /\ persisted = None

Next ==
    \/ restore_session
    \/ launch
    \/ new
    \/ \E path \in LoadChoicesAll : load(path)
    \/ \E chosen \in SaveChoicesAll, io \in {"ok", "OSError"} : save(chosen, io)
    \/ \E found \in BOOLEAN, io \in {"ok", "IOError"} : flash(found, io)
    \/ \E answer \in {"Ok", "Cancel"}, io \in WriteOutcomes : quit(answer, io)
    \/ AddRepl
    \/ RemoveRepl
    \/ ToggleRepl
    \/ \E text \in Typed : Edit(text)
    \/ \E i \in 1..MaxTabs : SelectTab(i)
    \/ \E i \in 1..MaxTabs : CloseTab(i)
    \/ \E path \in FsPaths : DeleteFile(path)

Spec == Init /\ [][Next]_vars

\* The device session: the operations that open and close it, with the
\* operations that run beside it.
NextRepl ==
    \/ restore_session
    \/ launch
    \/ \E path \in LoadChoices : load(path)
    \/ \E chosen \in SaveChoices : save(chosen, "ok")
    \/ \E found \in BOOLEAN : flash(found, "ok")
    \/ \E answer \in {"Ok", "Cancel"} : quit(answer, WriteOk)
    \/ AddRepl
    \/ RemoveRepl
    \/ ToggleRepl

SpecRepl == Init /\ [][NextRepl]_vars

\* The documents and the session file, on one platform.
NextDocs ==
    \/ restore_session
    \/ launch
    \/ new
    \/ \E path \in LoadChoices : load(path)
    \/ \E chosen \in SaveChoices : save(chosen, "ok")
    \/ \E answer \in {"Ok", "Cancel"} : quit(answer, WriteOk)
    \/ \E text \in Typed : Edit(text)
    \/ \E i \in 1..MaxTabs : SelectTab(i)
    \/ \E i \in 1..MaxTabs : CloseTab(i)

InitDocs == Init /\ os_name = "posix"

SpecDocs == InitDocs /\ [][NextDocs]_vars

\* The session store: the editor is started on any session file that lists
\* up to MaxSession scripts, of which any may be missing.
SessionScripts == {FileA, FileB, FileC}

SessionLists ==
    UNION {[1..n -> {Some(p) : p \in SessionScripts}] : n \in 0..MaxSession}

ScriptText(p) == IF p = FileA THEN TextA ELSE IF p = FileB THEN TextB ELSE TextC

InitSession ==
    /\ phase = "constructed"
    /\ os_name = "posix"
    /\ repl = None
    /\ wrepl = None
    /\ panes = 0
    /\ tabs = << >>
    /\ cur = 0
    /\ \E present \in SUBSET SessionScripts :
          fs = [p \in FsPaths |->
                   IF p \in present THEN Some(ScriptText(p)) ELSE None]
    /\ session \in {None} \cup {Some(JsonDump(l)) : l \in SessionLists}
    /\ device = None
    /\ openLog = NoOpen
    /\ lastOp = DocOp("__init__")
    /\ persisted = None

NextSession ==
    \/ restore_session
    \/ launch
    \/ \E answer \in {"Ok", "Cancel"} : quit(answer, WriteOk)
    \/ \E i \in 1..MaxSession : CloseTab(i)
    \/ \E path \in FsPaths : DeleteFile(path)

SpecSession == InitSession /\ [][NextSession]_vars

\* Quitting with unsaved work and a REPL: one platform, tabs opened, edited
\* and saved, the REPL toggled, the application quit and started again.
NextQuit ==
    \/ restore_session
    \/ launch
    \/ \E path \in LoadChoices : load(path)
    \/ \E text \in Typed : Edit(text)
    \/ \E chosen \in SaveChoices : save(chosen, "ok")
    \/ \E answer \in {"Ok", "Cancel"} : quit(answer, WriteOk)
    \/ ToggleRepl

SpecQuit == InitDocs /\ [][NextQuit]_vars

\* Flashing: tabs opened, typed into (a script beyond the capacity too) and
\* closed, and the tab in front flashed onto a device that is there or not.
NextFlash ==
    \/ restore_session
    \/ new
    \/ \E path \in LoadChoices : load(path)
    \/ \E text \in Typed \cup {LongText} : Edit(text)
    \/ \E i \in 1..MaxTabs : CloseTab(i)
    \/ \E found \in BOOLEAN, io \in {"ok", "IOError"} : flash(found, io)

SpecFlash == InitDocs /\ [][NextFlash]_vars

\* Files: tabs opened (from scripts and images, with and without a script),
\* typed into, brought to the front, closed and saved, with every answer of
\* the dialogs and a write that fails; files deleted behind the editor.
NextFiles ==
    \/ restore_session
    \/ new
    \/ \E path \in LoadChoicesAll : load(path)
    \/ \E text \in Typed : Edit(text)
    \/ \E i \in 1..MaxTabs : SelectTab(i)
    \/ \E i \in 1..MaxTabs : CloseTab(i)
    \/ \E chosen \in SaveChoicesAll, io \in {"ok", "OSError"} : save(chosen, io)
    \/ \E path \in FsPaths : DeleteFile(path)

SpecFiles == InitDocs /\ [][NextFiles]_vars

\* The session file across runs: tabs loaded, saved and closed, the
\* application quit with every outcome of the session write, and started
\* again on what the write left.
NextCrash ==
    \/ restore_session
    \/ launch
    \/ \E path \in LoadChoices : load(path)
    \/ \E chosen \in SaveChoices : save(chosen, "ok")
    \/ \E i \in 1..MaxTabs : CloseTab(i)
    \/ \E answer \in {"Ok", "Cancel"}, io \in WriteOutcomes : quit(answer, io)

SpecCrash == InitDocs /\ [][NextCrash]_vars

\* Paths across runs: the editor is started with no session file or an
\* empty one; tabs are made, loaded, brought to the front and saved under
\* every name, with a write that fails too, and the application is quit,
\* with every outcome of the session write, and started again.
InitPaths ==
    /\ phase = "constructed"
    /\ os_name = "posix"
    /\ repl = None
    /\ wrepl = None
    /\ panes = 0
    /\ tabs = << >>
    /\ cur = 0
    /\ fs = InitialFs
    /\ session \in {None, Some(JsonDump(<< >>))}
    /\ device = None
    /\ openLog = NoOpen
    /\ lastOp = DocOp("__init__")
    /\ persisted = None

NextPaths ==
    \/ restore_session
    \/ launch
    \/ new
    \/ \E path \in LoadChoicesAll : load(path)
    \/ \E i \in 1..MaxTabs : SelectTab(i)
    \/ \E chosen \in SaveChoicesAll, io \in {"ok", "OSError"} : save(chosen, io)
    \/ \E answer \in {"Ok", "Cancel"}, io \in WriteOutcomes : quit(answer, io)

SpecPaths == InitPaths /\ [][NextPaths]_vars

\* ================================================================ claims
\* What the history says about the operation that ran last.
Called(method) == method \in lastOp.calls
WasIdle == lastOp.preRepl = None
Raised(error) == lastOp.err = error
Shown(text, info) == lastOp.msgs = <<Message(text, info, "Warning")>>

\* The last operation called add_repl, and the nearest add_repl call before
\* it has had no remove_repl call after it.
SecondOpenInARow ==
    /\ Called("add_repl")
    /\ lastOp.prevOpen.res # "none"
    /\ ~lastOp.prevOpen.closedSince

\* Outcomes of add_repl that leave Editor.repl set.
LeftSession == {"Connected", "AlreadyOpen", "Error"}

\* C1: in every reachable state at most one device session is live:
\* Editor.repl and Window.repl each refer to at most one REPL, and the
\* splitter holds at most one REPL pane.
C1_AtMostOneSession ==
    /\ Cardinality(repl) <= 1
    /\ Cardinality(wrepl) <= 1
    /\ panes <= 1

\* C1 witness: a session is live, with its pane, and a further open was
\* attempted on it.
C1_Witness ==
    /\ repl # None /\ wrepl # None /\ panes = 1
    /\ lastOp.op = "add_repl" /\ ~WasIdle

\* C2 as stated: the second of two add_repl calls with no remove_repl call
\* between them raises 'REPL already running', whatever the first did.
C2_SecondOpenAlwaysRefused == SecondOpenInARow => Raised("AlreadyOpen")

\* C2 amended: the second of two add_repl calls with no remove_repl call
\* between them raises 'REPL already running' when the first left
\* Editor.repl set; when the first found no device, failed to connect or
\* met an unsupported platform, the second is not refused.
C2_SecondOpenRefusedWhenSessionLeft ==
    /\ (SecondOpenInARow /\ lastOp.prevOpen.res \in LeftSession)
          => Raised("AlreadyOpen") /\ repl = lastOp.preRepl
    /\ (SecondOpenInARow /\ lastOp.prevOpen.res \notin LeftSession)
          => ~Raised("AlreadyOpen")

\* C2 witness: an open right after an open that connected was refused.
C2_Witness ==
    /\ lastOp.op = "add_repl" /\ SecondOpenInARow
    /\ lastOp.prevOpen.res = "Connected" /\ Raised("AlreadyOpen")

\* C3 as stated: remove_repl called on a session always leaves Editor.repl
\* None and lets no error out, also when the View's remove_repl fails.
C3_CloseAlwaysEndsIdle ==
    (Called("remove_repl") /\ ~WasIdle) => (repl = None /\ Raised(""))

\* C4: remove_repl called without a session raises 'REPL not running',
\* does not call the View's remove_repl and leaves Editor.repl None.
C4_CloseWithoutSession ==
    (Called("remove_repl") /\ WasIdle)
        => /\ Raised("NotOpen")
           /\ ~Called("view.remove_repl")
           /\ repl = None

\* C4 witness: a close after an open that failed to connect.
C4_Witness ==
    /\ lastOp.op = "remove_repl" /\ WasIdle /\ Raised("NotOpen")
    /\ lastOp.prevOpen.res = "ConnectFailed"

\* C5: add_repl on an idle editor that finds no device shows the 'not
\* found' message and leaves Editor.repl None; one whose pane fails with
\* an I/O error shows the error with the reset guidance and leaves
\* Editor.repl None; neither lets an error out; and the add_repl call that
\* follows either of them asks find_microbit() again and is not refused.
C5_FailedOpenLeavesIdle ==
    /\ (Called("add_repl") /\ WasIdle /\ Called("find_microbit")
            /\ lastOp.mb_port = None /\ ~Called("view.add_repl"))
          => repl = None /\ Raised("") /\ Shown(MSG_NOT_FOUND, INFO_PLUG)
    /\ (Called("add_repl") /\ Called("view.add_repl")
            /\ lastOp.viewOut = "IOError")
          => repl = None /\ Raised("") /\ Shown(IOERROR_TEXT, INFO_RESET)
    /\ (Called("add_repl")
            /\ lastOp.prevOpen.res \in {"NotFound", "ConnectFailed"})
          => WasIdle /\ Called("find_microbit") /\ ~Raised("AlreadyOpen")

\* C5 witness: an open that connected, the open before it having failed to
\* connect.
C5_Witness ==
    /\ lastOp.op = "add_repl" /\ lastOp.prevOpen.res = "ConnectFailed"
    /\ lastOp.viewOut = "ok" /\ repl # None /\ wrepl # None

\* C6 as stated: toggle_repl never raises 'REPL already running' or 'REPL
\* not running', opens when idle and closes otherwise, and, find_microbit()
\* finding the device and the pane being built whenever it opens, turns
\* Connected into Idle and Idle into Connected.
C6_ToggleAlternates ==
    lastOp.op = "toggle_repl"
        => /\ ~Raised("AlreadyOpen") /\ ~Raised("NotOpen")
           /\ Called("add_repl") = WasIdle
           /\ Called("remove_repl") = ~WasIdle
           /\ (Called("add_repl") => lastOp.viewOut = "ok")
                 => (repl = None) = ~WasIdle

\* The documents of the tabs: path and text, in tab order.
Docs(ts) == [i \in 1..Len(ts) |-> [path |-> ts[i].path, text |-> ts[i].text]]

\* The documents of the files at the paths P, as the files are now.
FileDocs(P) ==
    [i \in 1..Len(P) |-> [path |-> P[i], text |-> The(ReadFile(The(P[i])))]]

Exists(p) == ReadFile(The(p)) # None
AllExist(P) == \A i \in 1..Len(P) : Exists(P[i])
DefaultDoc == [path |-> None, text |-> PLACEHOLDER]

\* restore_session ran last, on the session file as it is now.
Restored == lastOp.op = "restore_session"

\* The paths the session file lists, and those whose file exists.
Listed == IF session = None THEN << >> ELSE JsonLoad(The(session)).val
Kept == SelectSeq(Listed, Exists)

\* restore_session ran last, on the session file the quit before it wrote,
\* and every file that quit listed exists.
RestoredPersisted ==
    /\ Restored
    /\ persisted # None
    /\ session = Some(JsonDump(The(persisted)))
    /\ AllExist(The(persisted))

\* C7 as stated: restoring what quit persisted for the paths P of
\* existing files adds the tabs of P, with the files' texts, in order, and
\* no other tab.
C7_RoundTripEverySequence ==
    RestoredPersisted => Docs(tabs) = FileDocs(The(persisted))

\* C7 amended: the same for every non-empty P; for the empty P the restore
\* adds the one default tab.
C7_RoundTrip ==
    RestoredPersisted =>
        IF The(persisted) = << >>
        THEN Docs(tabs) = <<DefaultDoc>>
        ELSE Docs(tabs) = FileDocs(The(persisted))

\* C7 witness: two different existing files persisted and restored.
C7_Witness ==
    /\ RestoredPersisted
    /\ Len(The(persisted)) >= 2
    /\ The(persisted)[1] # The(persisted)[2]
    /\ Len(tabs) = Len(The(persisted))

\* C8: restore_session on a session file drops the paths whose file is
\* missing, raising nothing and showing nothing, and the tabs with a path
\* are those of the paths whose file exists, with the files' texts, in the
\* order of the session file.
C8_RestoreDropsMissing ==
    (Restored /\ session # None)
        => /\ Raised("") /\ lastOp.msgs = << >> /\ phase = "running"
           /\ SelectSeq(Docs(tabs), LAMBDA d : d.path # None) = FileDocs(Kept)

\* C8 witness: one missing file among three listed, two tabs restored.
C8_Witness ==
    /\ Restored /\ session # None
    /\ Len(Listed) = 3 /\ Len(Kept) = 2 /\ Len(tabs) = 2

\* C9: after restore_session the tabs hold the default document (no path,
\* the placeholder script) exactly when no listed file exists or the
\* session file is absent, and then it is the only tab; otherwise every
\* tab has a path.
C9_DefaultIffNothingRestored ==
    Restored =>
        /\ (Kept = << >>) = (\E i \in 1..Len(tabs) : tabs[i].path = None)
        /\ Kept = << >> => Docs(tabs) = <<DefaultDoc>>
        /\ Kept # << >> => Len(tabs) = Len(Kept)

\* C9 witness: every listed file is missing and the default tab is there.
C9_Witness ==
    /\ Restored /\ Len(Listed) >= 2 /\ Kept = << >>
    /\ Docs(tabs) = <<DefaultDoc>>

\* The paths of the tabs that have one, in tab order.
PathsOfTabs ==
    LET withPath == SelectSeq(tabs, LAMBDA t : t.path # None) IN
    [i \in 1..Len(withPath) |-> withPath[i].path]

\* C10: once quit has ended the process, the session file holds exactly
\* the list of the paths of the tabs that have a path, in tab order, and
\* nothing else; it has no entry for a tab without a path.
C10_QuitPersistsPaths ==
    phase = "exited" =>
        /\ session # None
        /\ JsonLoad(The(session)) = [ok |-> TRUE, val |-> PathsOfTabs]
        /\ \A i \in 1..Len(The(session)) : The(session)[i] # NULL
        /\ persisted = Some(PathsOfTabs)

\* C10 witness: quit with a saved tab and a tab without a path, the text of
\* which came out of an image.
C10_Witness ==
    /\ phase = "exited" /\ lastOp.op = "quit"
    /\ \E i, j \in 1..Len(tabs) :
          /\ tabs[i].path = None /\ tabs[i].text = TextH
          /\ tabs[j].path = Some(FileC)
    /\ The(session) = <<LBR, JsonValue(Some(FileC)), RBR>>

\* ------------------------------------------------------------------- C11
AnyModified == \E i \in 1..Len(tabs) : tabs[i].modified

\* C11: quit() asks the view for a confirmation exactly when some open tab
\* is modified, and a quit the user cancels changes nothing: the session
\* file, the tabs (path, text, modified), the tab in front, the files, the
\* REPL and its pane stay as they were and the application keeps running.
C11_QuitAsksWhenModifiedAndCancelKeepsAll ==
    [][\A answer \in {"Ok", "Cancel"} :
          quit(answer, WriteOk) =>
             /\ ("show_confirmation" \in lastOp'.calls) <=> AnyModified
             /\ AnyModified /\ answer = "Cancel" =>
                   /\ UNCHANGED <<session, tabs, cur, fs, device>>
                   /\ UNCHANGED <<repl, wrepl, panes>>
                   /\ phase' = "running"]_vars

\* A quit was cancelled with a REPL open and unsaved work in a tab that is
\* not in front.
C11_Witness ==
    /\ lastOp.op = "quit"
    /\ Called("show_confirmation")
    /\ phase = "running"
    /\ repl # None
    /\ AnyModified
    /\ ~tabs[cur].modified

\* ------------------------------------------------------------------- C12
NotFoundShown == lastOp'.msgs = <<Message(MSG_NOT_FOUND, "", "Warning")>>
FlashingShown ==
    \E m \in {lastOp'.msgs[i] : i \in 1..Len(lastOp'.msgs)} :
       m.text = MSG_FLASHING
NothingWritten == UNCHANGED <<device, fs, session>>

C13_CancelledSaveKeepsAll ==
    [][\A io \in {"ok", "OSError"} :
          save(<< >>, io) /\ cur # 0 /\ tabs[cur].path = None =>
             /\ lastOp'.err = ""
             /\ "get_save_path" \in lastOp'.calls
             /\ UNCHANGED <<fs, session, device>>
             /\ tabs'[cur].path = None
             /\ tabs' = tabs
             /\ cur' = cur]_vars

\* The dialog of a save was cancelled on a modified tab without a path.
C13_Witness ==
    /\ lastOp.op = "save"
    /\ Called("get_save_path")
    /\ cur # 0
    /\ tabs[cur].path = None
    /\ tabs[cur].modified

\* ------------------------------------------------------------------- C14
\* The path a save works on: the one of the tab, or the chosen one.
PathToSave(chosen) ==
    IF tabs[cur].path = None THEN chosen ELSE The(tabs[cur].path)

\* C14: save() asks the view for a path only when the tab has none; a save
\* that is not cancelled and whose write succeeds ends with the tab's path
\* ending in '.py' (the given name, with '.py' appended when it lacked it),
\* the file at that path holding the tab's text and modified false; a write
\* that fails leaves the modified flag and the files as they were.
C14_SaveWritesTextUnderPyPath ==
    [][\A chosen \in SaveChoicesAll, io \in {"ok", "OSError"} :
          save(chosen, io) /\ cur # 0 =>
             LET path == PathToSave(chosen)
                 ends == Len(path) > 0 /\ path[Len(path)] = ".py"
             IN
             /\ ("get_save_path" \in lastOp'.calls) <=> tabs[cur].path = None
             /\ path # << >> /\ io = "ok" =>
                   /\ tabs'[cur].path =
                         Some(IF ends THEN path ELSE path \o <<".py">>)
                   /\ fs'[The(tabs'[cur].path)] = Some(tabs[cur].text)
                   /\ \A p \in DOMAIN fs :
                         p # The(tabs'[cur].path) => fs'[p] = fs[p]
                   /\ tabs'[cur].text = tabs[cur].text
                   /\ ~tabs'[cur].modified
                   /\ lastOp'.err = ""
             /\ path # << >> /\ io # "ok" =>
                   /\ tabs'[cur].modified = tabs[cur].modified
                   /\ tabs'[cur].text = tabs[cur].text
                   /\ fs' = fs]_vars

\* A modified tab without a path was saved under a name without extension.
C14_Witness ==
    /\ lastOp.op = "save"
    /\ Called("get_save_path")
    /\ lastOp.err = ""
    /\ cur # 0
    /\ tabs[cur].path = Some(FileC)
    /\ tabs[cur].text \in Typed
    /\ fs[FileC] = Some(tabs[cur].text)
    /\ ~tabs[cur].modified

\* ------------------------------------------------------------------- C15
\* The file the dialog's answer names is there, and what a load appends.
Present(path) == path \in DOMAIN fs /\ fs[path] # None
Appended(pane) ==
    /\ Len(tabs') = Len(tabs) + 1
    /\ SubSeq(tabs', 1, Len(tabs)) = tabs
    /\ tabs'[Len(tabs')].path = pane.path
    /\ tabs'[Len(tabs')].text = pane.text
    /\ tabs'[Len(tabs')].modified = pane.modified
    /\ cur' = Len(tabs')

\* C15: load() adds at most one tab: for a path ending in '.py' a tab with
\* that path and the content of the file, for any other file a tab without
\* a path holding the script extracted from it; when the file is missing
\* (the cancelled dialog's '' included) it adds no tab, shows no message
\* and raises nothing.
C15_LoadAddsAtMostOneTab ==
    [][\A path \in LoadChoicesAll :
          load(path) =>
             /\ Len(tabs') \in {Len(tabs), Len(tabs) + 1}
             /\ UNCHANGED <<fs, session, device>>
             /\ ~Present(path) =>
                   /\ UNCHANGED <<tabs, cur>>
                   /\ lastOp'.msgs = << >>
                   /\ lastOp'.err = ""
             /\ Present(path) /\ path[Len(path)] = ".py" =>
                   Appended([path |-> Some(path), text |-> The(fs[path]),
                             modified |-> FALSE])
             /\ Present(path) /\ path[Len(path)] # ".py" =>
                   Appended([path |-> None,
                             text |-> extract_script(The(fs[path])),
                             modified |-> FALSE])]_vars

\* A script was loaded and then the script of an image, which has no path.
C15_Witness ==
    /\ lastOp.op = "load"
    /\ Len(tabs) = 2
    /\ tabs[1].path = Some(FileA)
    /\ tabs[1].text = TextA
    /\ tabs[2].path = None
    /\ tabs[2].text = TextH

\* ------------------------------------------------------------------- C16
\* C16 as claimed: load() of an image that holds no script shows a message
\* (NoScriptFound) and adds no tab.
C16_NoScriptReportedAndNoTab ==
    [][load(FileR) /\ fs[FileR] = Some(RUNTIME) =>
          /\ lastOp'.msgs # << >>
          /\ tabs' = tabs]_vars

\* ------------------------------------------------------------------- C17
\* The tokens are a JSON list of strings.
ValidSession(toks) ==
    LET loaded == JsonLoad(toks) IN
    /\ loaded.ok
    /\ \A i \in 1..Len(loaded.val) : loaded.val[i] # None

\* C17 as claimed: in every state, whatever the runs before it (a quit
\* whose session write was interrupted included), the session file is
\* absent or holds a valid JSON list of path strings.
C17_SessionFileAbsentOrValid ==
    session = None \/ ValidSession(The(session))

\* ------------------------------------------------------------------- C18
\* C18 as claimed: no failure of a device or of a file leaves the operation
\* it happens in (flash, open, close, load, save, restore, quit) as an
\* error: the only errors an operation ends with are the refusals
\* AlreadyOpen and NotOpen, and the process ends only through quit().
C18_NoFailureEscapes ==
    /\ lastOp.err \in {"", "AlreadyOpen", "NotOpen", "killed"}
    /\ phase = "crashed" => lastOp.err = "killed"

\* ------------------------------------------------------------------- C19
\* C19 as claimed: when quit() has ended the process, the REPL session was
\* destroyed first: no REPL object, no pane, no port held.
C19_NoSessionAtExit ==
    phase = "exited" => repl = None /\ wrepl = None /\ panes = 0

C21_EditorAndWindowAgree ==
    /\ (repl # None) <=> (wrepl # None)
    /\ (wrepl # None) <=> (panes > 0)

\* ------------------------------------------------------------------- C22
\* The str ends in '.py'.
HasPyEnd(path) == Len(path) > 0 /\ path[Len(path)] = ".py"

\* The paths a session file lists, when it is a JSON list.
ListedPaths ==
    IF session = None \/ ~JsonLoad(The(session)).ok THEN << >>
    ELSE JsonLoad(The(session)).val

\* C22: started without a session file or with an empty one, after any
\* news, loads, saves, quits and restores over any number of runs, every
\* tab that has a path has one that ends in '.py', and so has every entry
\* of the session file.
C22_PathsEndInPy ==
    /\ \A i \in 1..Len(tabs) :
          tabs[i].path # None => HasPyEnd(The(tabs[i].path))
    /\ \A i \in 1..Len(ListedPaths) :
          ListedPaths[i] # None /\ HasPyEnd(The(ListedPaths[i]))

\* In a later run, a tab restored from the session file has the path that
\* a save under a name without extension gave it.
C22_Witness ==
    /\ lastOp.op = "restore_session"
    /\ phase = "running"
    /\ Len(ListedPaths) > 0
    /\ \E i \in 1..Len(tabs) : tabs[i].path = Some(FileC)

\* ------------------------------------------------------------------- C23
\* The step changes the modified flag of the tab at position i.
FlagChanged(i) ==
    /\ lastOp'.op \in {"edit", "save"}
    /\ Len(tabs') = Len(tabs)
    /\ i \in 1..Len(tabs)
    /\ tabs'[i].modified # tabs[i].modified

\* C23 as claimed: whatever tabs were added and closed before, a change of
\* the modified flag of a tab sets the title of that tab to its label and
\* leaves the title of every other tab as it was.
C23_TitleOfTheSameTab ==
    [][\A i \in 1..MaxTabs :
          FlagChanged(i) =>
             /\ tabs'[i].title = Label(tabs'[i])
             /\ \A j \in 1..Len(tabs) :
                   j # i => tabs'[j].title = tabs[j].title]_vars

====
